---- MODULE Spec2Model ----
(***************************************************************************)
(* A model of the implicit-to-explicit pipeline:                           *)
(*   implicit_to_explicit.py   generate_symbolic_equations_both_sides      *)
(*   symbolic_model_utils.py   expand_rational_expr, drop_small_terms,     *)
(*                             rescale_expression, print_and_store_models  *)
(*                                                                         *)
(* Numbers.  A coefficient is a record [n, d, s] standing for the value    *)
(* (n/d) * 10^(-6*s): a reduced fraction n/d with a decimal scale s, so    *)
(* that 1e-6 (the default tol) is [1,1,1] and 1e-12 (the rescaler's floor) *)
(* is [1,1,2] without leaving 32-bit integers.  The fraction n/d of every  *)
(* coefficient of the model lies strictly between 10^-6 and 10^6, which    *)
(* makes the representation unique and lets magnitudes be compared scale   *)
(* first.                                                                  *)
(*                                                                         *)
(* Polynomials.  The symbols besides the derivative symbol are x0 and x1;  *)
(* a monomial is the exponent pair <<e0, e1>> and an expanded polynomial   *)
(* is a function from its monomials to their nonzero coefficients (the     *)
(* zero polynomial has the empty domain).                                  *)
(*                                                                         *)
(* Expressions.  A rational expression is [kind, num, den]: kind "ratio"   *)
(* with the numerator and denominator SymPy's fraction() reads back, or    *)
(* kind "zoo", SymPy's undefined value (sp.zoo).  Kind "ratio" holds       *)
(* floating-point coefficients (what the regression produces); kind        *)
(* "exact" holds Integer/Rational coefficients, which SymPy's fraction()   *)
(* splits between numerator and denominator instead of folding.            *)
(***************************************************************************)
EXTENDS Integers, Sequences, FiniteSets, TLC

\* ------------------------------------------------------------ coefficients

Abs(x) == IF x < 0 THEN -x ELSE x

RECURSIVE GCD(_, _)
GCD(a, b) == IF b = 0 THEN a ELSE GCD(b, a % b)

CZero == [n |-> 0, d |-> 1, s |-> 0]

MkCoef(n, d, s) ==
    IF n = 0 THEN CZero
    ELSE LET g == GCD(Abs(n), d)
         IN  [n |-> n \div g, d |-> d \div g, s |-> s]

COne == MkCoef(1, 1, 0)

CNeg(c) == [c EXCEPT !.n = -c.n]

\* a / b for b # 0
CDiv(a, b) ==
    IF b.n > 0 THEN MkCoef(a.n * b.d, a.d * b.n, a.s - b.s)
    ELSE MkCoef(-(a.n * b.d), a.d * (-b.n), a.s - b.s)

\* a * b
CMul(a, b) == MkCoef(a.n * b.n, a.d * b.d, a.s + b.s)

\* abs(a) > abs(b)
CAbsGt(a, b) ==
    IF a.n = 0 THEN FALSE
    ELSE IF b.n = 0 THEN TRUE
    ELSE IF a.s # b.s THEN a.s < b.s
    ELSE Abs(a.n) * b.d > Abs(b.n) * a.d

\* ------------------------------------------------------------- polynomials

ZeroPoly == [m \in {} |-> CZero]

\* the polynomial with the terms T, a set of <<monomial, coefficient>> pairs
PolyOf(T) ==
    LET NZ == {t \in T : t[2].n # 0}
    IN  [m \in {t[1] : t \in NZ} |-> (CHOOSE t \in NZ : t[1] = m)[2]]

MonoOne == <<0, 0>>

OnePoly == PolyOf({<<MonoOne, COne>>})

IsZeroPoly(P) == DOMAIN P = {}

\* len(P.as_ordered_terms()): the zero polynomial is the one term 0
NTerms(P) == IF IsZeroPoly(P) THEN 1 ELSE Cardinality(DOMAIN P)

PolyRestrict(P, S) == [m \in S |-> P[m]]

PolyMap(P, F(_)) == PolyOf({<<m, F(P[m])>> : m \in DOMAIN P})

PolyNeg(P) == PolyMap(P, CNeg)

PolyDivC(P, c) == LET F(x) == CDiv(x, c) IN PolyMap(P, F)

PolyMulC(P, c) == LET F(x) == CMul(x, c) IN PolyMap(P, F)

\* as_ordered_terms lists the terms in SymPy's default (lexicographic) term
\* order: higher powers of x0 first, then higher powers of x1
TermBefore(m1, m2) == m1[1] > m2[1] \/ (m1[1] = m2[1] /\ m1[2] >= m2[2])

\* key=lambda t: abs(coefficient) of Python's max over as_ordered_terms():
\* the first term, in term order, of largest coefficient magnitude
LargestTerm(P) ==
    CHOOSE m \in DOMAIN P :
        \A m2 \in DOMAIN P :
            /\ ~CAbsGt(P[m2], P[m])
            /\ (m2 # m /\ ~CAbsGt(P[m], P[m2])) => TermBefore(m, m2)

\* ------------------------------------------------------------- expressions

Ratio(N, D) == [kind |-> "ratio", num |-> N, den |-> D]

\* sp.zoo: fraction(zoo) is (zoo, 1), one term each, is_zero False
Zoo == [kind |-> "zoo", num |-> ZeroPoly, den |-> OnePoly]

\* sp.nan, SymPy's value of 0/0
NaN == [kind |-> "nan", num |-> ZeroPoly, den |-> OnePoly]

SingleTerm(P) == Cardinality(DOMAIN P) = 1

TheMono(P) == CHOOSE m \in DOMAIN P : TRUE

MonoMin(m1, m2) ==
    << IF m1[1] < m2[1] THEN m1[1] ELSE m2[1],
       IF m1[2] < m2[2] THEN m1[2] ELSE m2[2] >>

MonoSub(m1, m2) == <<m1[1] - m2[1], m1[2] - m2[2]>>

\* The quotient N/D of two expanded polynomials with floating-point
\* coefficients as SymPy evaluates it and fraction() reads it back:
\*   - a zero denominator gives zoo (nan for 0/0), a zero numerator gives 0;
\*   - the number in a one-term denominator c*m is folded into the numerator
\*     (x/(2.0*y) is 0.5*x/y), and a one-term numerator over a one-term
\*     denominator cancels the common powers of the symbols;
\*   - a sum over the same sum is 1; otherwise the pair is kept as it is.
MkExpr(N, D) ==
    IF IsZeroPoly(D) THEN (IF IsZeroPoly(N) THEN NaN ELSE Zoo)
    ELSE IF IsZeroPoly(N) THEN Ratio(ZeroPoly, OnePoly)
    ELSE IF N = D THEN Ratio(OnePoly, OnePoly)
    ELSE IF SingleTerm(D)
         THEN LET md == TheMono(D)
                  N1 == PolyDivC(N, D[md])
              IN  IF SingleTerm(N1)
                  THEN LET mn == TheMono(N1)
                           g  == MonoMin(mn, md)
                       IN  Ratio(PolyOf({<<MonoSub(mn, g), N1[mn]>>}),
                                 PolyOf({<<MonoSub(md, g), COne>>}))
                  ELSE Ratio(N1, PolyOf({<<md, COne>>}))
    ELSE Ratio(N, D)

Exact(N, D) == [kind |-> "exact", num |-> N, den |-> D]

\* The quotient N/D of two expanded polynomials with Integer/Rational
\* coefficients (scale 0) as fraction() reads it back.  A Rational factor
\* p/q of the product is split: p goes to the numerator, q to the
\* denominator.
\*   - one term over one term: the coefficients combine to p/q and the common
\*     powers cancel, giving p*m1 over q*m2;
\*   - one term (p/q)*m over a sum D: p*m over q*D;
\*   - a sum N over one term c*m, 1/c = p/q: p*N over q*m; over a number c
\*     the division distributes and the denominator is 1;
\*   - a sum over a sum is kept as it is (a sum over itself is 1).
MkExprExact(N, D) ==
    IF IsZeroPoly(D) THEN (IF IsZeroPoly(N) THEN NaN ELSE Zoo)
    ELSE IF IsZeroPoly(N) THEN Exact(ZeroPoly, OnePoly)
    ELSE IF N = D THEN Exact(OnePoly, OnePoly)
    ELSE IF SingleTerm(N)
         THEN LET mn == TheMono(N)
              IN  IF SingleTerm(D)
                  THEN LET md == TheMono(D)
                           r  == CDiv(N[mn], D[md])
                           g  == MonoMin(mn, md)
                       IN  Exact(PolyOf({<<MonoSub(mn, g), MkCoef(r.n, 1, 0)>>}),
                                 PolyOf({<<MonoSub(md, g), MkCoef(r.d, 1, 0)>>}))
                  ELSE Exact(PolyOf({<<mn, MkCoef(N[mn].n, 1, 0)>>}),
                             PolyMulC(D, MkCoef(N[mn].d, 1, 0)))
    ELSE IF SingleTerm(D)
         THEN LET md == TheMono(D)
                  r  == CDiv(COne, D[md])
              IN  IF md = MonoOne THEN Exact(PolyMulC(N, r), OnePoly)
                  ELSE Exact(PolyMulC(N, MkCoef(r.n, 1, 0)),
                             PolyOf({<<md, MkCoef(r.d, 1, 0)>>}))
    ELSE Exact(N, D)

\* a quotient of two polynomials, not zoo or nan
IsRational(expr) == expr.kind \in {"ratio", "exact"}

\* N/D in the arithmetic of the expression kind
Quot(kind, N, D) == IF kind = "exact" THEN MkExprExact(N, D) ELSE MkExpr(N, D)

\* expand_rational_expr: num, den = fraction(expr); expand(num)/expand(den)
expand_rational_expr(expr) ==
    IF IsRational(expr) THEN Quot(expr.kind, expr.num, expr.den) ELSE expr

\* getattr(num, "is_zero", False) of num, _ = sp.fraction(expr)
NumIsZero(expr) == IsRational(expr) /\ IsZeroPoly(expr.num)

\* ------------------------------------------------------- drop_small_terms

\* filter_terms: keep a term iff its coefficient is nonzero and abs > tol
\* a filter that keeps a coefficient equal to the tolerance
FilterAtLeast(P, tol) ==
    PolyRestrict(P, {m \in DOMAIN P : P[m].n # 0 /\ ~CAbsGt(tol, P[m])})

filter_terms(P, tol) ==
    PolyRestrict(P, {m \in DOMAIN P : P[m].n # 0 /\ CAbsGt(P[m], tol)})

\* the filtered side without the fallback
CleanSideNoFallback(P, tol) == filter_terms(P, tol)

\* the filtered side, or the single largest term when filtering emptied it
CleanSide(P, tol) ==
    LET kept == filter_terms(P, tol)
    IN  IF IsZeroPoly(kept) /\ ~IsZeroPoly(P)
        THEN PolyRestrict(P, {LargestTerm(P)})
        ELSE kept

\* the function with the two fallback statements left out
DropWithoutFallback(expr, tol) ==
    IF ~IsRational(expr) THEN expr
    ELSE LET num_clean == filter_terms(expr.num, tol)
             den_clean == filter_terms(expr.den, tol)
         IN  IF IsZeroPoly(den_clean) THEN Zoo
             ELSE Quot(expr.kind, num_clean, den_clean)

drop_small_terms(expr, tol) ==
    IF ~IsRational(expr) THEN expr
    ELSE LET num_clean == CleanSide(expr.num, tol)
             den_clean == CleanSide(expr.den, tol)
         IN  IF IsZeroPoly(den_clean) THEN Zoo
             ELSE Quot(expr.kind, num_clean, den_clean)

\* ----------------------------------------------------- rescale_expression

\* target=None
NoTarget == <<>>

\* gens=None
NoGens == <<>>

\* abs(coeff.evalf()) > 1e-12
CoefFloor == MkCoef(1, 1, 2)

\* the symbols (1 for x0, 2 for x1) that occur in P
FreeVars(P) == {v \in {1, 2} : \E m \in DOMAIN P : m[v] > 0}

\* tuple(sorted(D.free_symbols, key=lambda s: s.name))
SortedVars(V) ==
    IF V = {1, 2} THEN <<1, 2>>
    ELSE IF V = {1} THEN <<1>>
    ELSE IF V = {2} THEN <<2>>
    ELSE <<>>

\* gens = tuple(gens) if gens else the denominator's symbols sorted by name
GensOf(D, gens) == IF gens # NoGens THEN gens ELSE SortedVars(FreeVars(D))

InGens(v, g) == \E k \in DOMAIN g : g[k] = v

\* the exponent tuple of monomial m over the generators g
GenExp(m, g) == [k \in DOMAIN g |-> m[g[k]]]

\* a term with a symbol outside the generators: the symbol is part of the
\* term's coefficient in Poly(D, *gens)
Residual(m, g) == \E v \in {1, 2} : m[v] > 0 /\ ~InGens(v, g)

\* poly.monoms()
PolyMonoms(D, g) == {GenExp(m, g) : m \in DOMAIN D}

TermsAt(D, g, t) == {m \in DOMAIN D : GenExp(m, g) = t}

\* coeff.is_number of coeff = poly.coeff_monomial(t): a coefficient that
\* holds a symbol outside the generators is not a number; an absent
\* monomial has the number 0
CoeffIsNumber(D, g, t) ==
    \/ TermsAt(D, g, t) = {}
    \/ /\ Cardinality(TermsAt(D, g, t)) = 1
       /\ \A m \in TermsAt(D, g, t) : ~Residual(m, g)

CoeffAt(D, g, t) ==
    IF TermsAt(D, g, t) = {} THEN CZero
    ELSE D[CHOOSE m \in TermsAt(D, g, t) : TRUE]

\* the test of a coefficient without the floor of 1e-12
UsableCoeffNoFloor(D, g, t) ==
    /\ CoeffIsNumber(D, g, t)
    /\ CoeffAt(D, g, t).n # 0

\* coeff.is_number and not coeff.has(nan) and not coeff.is_zero
\* and abs(coeff.evalf()) > 1e-12
UsableCoeff(D, g, t) ==
    /\ CoeffIsNumber(D, g, t)
    /\ CoeffAt(D, g, t).n # 0
    /\ CAbsGt(CoeffAt(D, g, t), CoefFloor)

RECURSIVE SumSeq(_)
SumSeq(t) == IF t = <<>> THEN 0 ELSE Head(t) + SumSeq(Tail(t))

\* Python's tuple order: t1 < t2 lexicographically (equal lengths)
RECURSIVE LexLess(_, _)
LexLess(t1, t2) ==
    IF t1 = <<>> THEN FALSE
    ELSE IF Head(t1) # Head(t2) THEN Head(t1) < Head(t2)
    ELSE LexLess(Tail(t1), Tail(t2))

\* the last of the sorted monomials of highest degree
LeadMonomLast(D, g) ==
    LET monoms == PolyMonoms(D, g)
        top    == {t \in monoms : \A u \in monoms : SumSeq(u) <= SumSeq(t)}
    IN  CHOOSE t \in top : \A u \in top : u = t \/ LexLess(u, t)

\* sorted([m for m in monoms if sum(m) == max_deg])[0]
LeadMonom(D, g) ==
    LET monoms == PolyMonoms(D, g)
        top    == {t \in monoms : \A u \in monoms : SumSeq(u) <= SumSeq(t)}
    IN  CHOOSE t \in top : \A u \in top : u = t \/ LexLess(t, u)

\* the monomial whose coefficient scales the expression, as <<found, tuple>>:
\* the target when it is usable, else the leading monomial when that is
RescaleChoice(D, g, target) ==
    IF target # NoTarget /\ UsableCoeff(D, g, GenExp(target, g))
    THEN <<TRUE, GenExp(target, g)>>
    ELSE IF UsableCoeff(D, g, LeadMonom(D, g))
         THEN <<TRUE, LeadMonom(D, g)>>
         ELSE <<FALSE, <<>> >>

\* poly.coeff_monomial(sp.expand(target)) raises ValueError for a target
\* that is not a monomial over the generators; the except clause returns expr
TargetRaises(g, target) ==
    target # NoTarget /\ \E v \in {1, 2} : target[v] > 0 /\ ~InGens(v, g)

\* D.is_number: the denominator holds no symbol
DenIsNumber(expr) == DOMAIN expr.den \subseteq {MonoOne}

\* a scaling coefficient is found: no early return is taken
RescaleSucceeds(expr, target, gens) ==
    /\ IsRational(expr)
    /\ ~DenIsNumber(expr)
    /\ ~TargetRaises(GensOf(expr.den, gens), target)
    /\ RescaleChoice(expr.den, GensOf(expr.den, gens), target)[1]

\* used_monomial, as a monomial of the denominator: the term of D at the
\* chosen exponent tuple
UsedMonomial(expr, target, gens) ==
    LET g == GensOf(expr.den, gens)
        t == RescaleChoice(expr.den, g, target)[2]
    IN  CHOOSE m \in TermsAt(expr.den, g, t) : TRUE

\* scaling_coeff
ScalingCoeff(expr, target, gens) ==
    LET g == GensOf(expr.den, gens)
    IN  CoeffAt(expr.den, g, RescaleChoice(expr.den, g, target)[2])

\* the final step dividing the denominator only
RescaleDenOnly(expr, target, gens) ==
    IF ~RescaleSucceeds(expr, target, gens) THEN expr
    ELSE Quot(expr.kind, expr.num,
              PolyDivC(expr.den, ScalingCoeff(expr, target, gens)))

rescale_expression(expr, target, gens) ==
    IF ~RescaleSucceeds(expr, target, gens) THEN expr
    ELSE LET scaling_coeff == ScalingCoeff(expr, target, gens)
         IN  Quot(expr.kind, PolyDivC(expr.num, scaling_coeff),
                             PolyDivC(expr.den, scaling_coeff))

\* ------------------------------------------------- rounding (expr.evalf)

RECURSIVE Pow10(_)
Pow10(k) == IF k = 0 THEN 1 ELSE 10 * Pow10(k - 1)

\* <<sn, sd, e>> with sn/sd = (the starting sn/sd) * 10^(-e) and
\* lo <= sn/sd < 10*lo
RECURSIVE SigScale(_, _, _, _)
SigScale(sn, sd, e, lo) ==
    IF sn < lo * sd THEN SigScale(sn * 10, sd, e - 1, lo)
    ELSE IF sn >= 10 * lo * sd THEN SigScale(sn, sd * 10, e + 1, lo)
    ELSE <<sn, sd, e>>

\* a coefficient rounded to `digits` significant digits (ties to even).
\* evalf rounds in binary to the precision of that many decimal digits; the
\* model rounds the decimal digits that are printed.
RoundCoef(c, digits) ==
    IF c.n = 0 THEN c
    ELSE LET t  == SigScale(Abs(c.n), c.d, 0, Pow10(digits - 1))
             q  == t[1] \div t[2]
             r  == t[1] % t[2]
             m  == IF 2 * r > t[2] \/ (2 * r = t[2] /\ q % 2 = 1)
                   THEN q + 1 ELSE q
             sg == IF c.n < 0 THEN -1 ELSE 1
         IN  IF t[3] >= 0 THEN MkCoef(sg * m * Pow10(t[3]), 1, c.s)
             ELSE MkCoef(sg * m, Pow10(-t[3]), c.s)

\* expand_rational_expr(cleaned.evalf(sig_digits))
RoundExpr(expr, digits) ==
    IF ~IsRational(expr) THEN expr
    ELSE LET F(c) == RoundCoef(c, digits)
         IN  MkExpr(PolyMap(expr.num, F), PolyMap(expr.den, F))

\* ------------------------------------------------- equations and sp.solve
\* A row of eq_list is one of
\*   [kind "linear", A, B]   the equation A*xdot + B = 0, A and B polynomials
\*                           in x0, x1 (what the assembler builds from
\*                           features that hold the derivative at most once)
\*   [kind "square", A, B]   the equation xdot^2 - B^2 = 0, B one term
\*   [kind "nonalg", A, B]   an equation outside the engine's algorithms
\*                           (xdot + sin(xdot) = 1): sp.solve raises
\*                           NotImplementedError

LinearEq(A, B) == [kind |-> "linear", A |-> A, B |-> B]

SquareEq(B) == [kind |-> "square", A |-> OnePoly, B |-> B]

NonAlgEq == [kind |-> "nonalg", A |-> ZeroPoly, B |-> ZeroPoly]

SolveRaises(eq) == eq.kind = "nonalg"

\* sp.solve(eq, xdot_symbol): the list of roots.  An equation that does not
\* hold the symbol (Eq(0, 0) evaluates to True) has the empty list.
solve(eq) ==
    IF eq.kind = "linear"
    THEN IF IsZeroPoly(eq.A) THEN <<>>
         ELSE <<MkExpr(PolyNeg(eq.B), eq.A)>>
    ELSE IF eq.kind = "square"
    THEN IF IsZeroPoly(eq.B) THEN <<MkExpr(ZeroPoly, OnePoly)>>
         ELSE <<MkExpr(PolyNeg(eq.B), OnePoly), MkExpr(eq.B, OnePoly)>>
    ELSE <<>>

\* sp.together(sp.expand(raw))
TogetherExpand(raw) ==
    IF raw.kind = "ratio" THEN MkExpr(raw.num, raw.den) ELSE raw

\* ------------------------------------------------------------ model inputs

MaxRows == 2

C(k) == MkCoef(k, 1, 0)

\* 1e-7 and 5e-8: coefficients below the default tolerance
Tiny == MkCoef(1, 10, 1)
Tinier == MkCoef(1, 20, 1)

MonoX0 == <<1, 0>>
MonoX1 == <<0, 1>>

\* x0_dot - (2*x0 - x1) = 0, the end-to-end scenario's row
EqScenario == LinearEq(OnePoly, PolyOf({<<MonoX0, C(-2)>>, <<MonoX1, C(1)>>}))

\* left_coeff row and right_coeff row all zeros: Eq(0, 0)
EqAllZero == LinearEq(ZeroPoly, ZeroPoly)

\* x0_dot = 0: the fit of the row returned all zeros
EqZeroNum == LinearEq(OnePoly, ZeroPoly)

\* x0_dot*(2*x0 - 4*x1) - (3*x1 + 1e-7*x0) = 0
EqRational ==
    LinearEq(PolyOf({<<MonoX0, C(2)>>, <<MonoX1, C(-4)>>}),
             PolyOf({<<MonoX1, C(-3)>>, <<MonoX0, CNeg(Tiny)>>}))

\* x0_dot - (1e-7*x0 + 5e-8*x1) = 0: every term below the default tolerance
EqTinyNum ==
    LinearEq(OnePoly, PolyOf({<<MonoX0, CNeg(Tiny)>>, <<MonoX1, CNeg(Tinier)>>}))

\* x0_dot^2 - x0^2 = 0: two roots, -x0 and x0
EqSquare == SquareEq(PolyOf({<<MonoX0, C(1)>>}))

EqRows ==
    {EqScenario, EqAllZero, EqZeroNum, EqRational, EqTinyNum, EqSquare,
     NonAlgEq}

EqLists == UNION {[1..k -> EqRows] : k \in 0..MaxRows}

\* the tunables the model runs with: tol is the default 1e-6 or 0.5, target
\* is None or the monomial x0, gens is None (inferred) or the list [x1, x0]
Tuning(t, sd, tg, gn) ==
    [tol |-> t, sig_digits |-> sd, target |-> tg, gens |-> gn]

TuningSet ==
    {Tuning(MkCoef(1, 1, 1), 2, NoTarget, NoGens),
     Tuning(MkCoef(1, 2, 0), 1, MonoX0, NoGens),
     Tuning(MkCoef(1, 1, 1), 1, NoTarget, <<2, 1>>),
     Tuning(MkCoef(1, 2, 0), 2, MonoX0, <<2, 1>>)}

\* the value of a local name that has not been assigned yet
Unbound == [kind |-> "unbound", num |-> ZeroPoly, den |-> OnePoly]

EmptyMap == [x \in {} |-> Unbound]

\* d[k] = v on a dict
Put(f, k, v) == [x \in DOMAIN f \cup {k} |-> IF x = k THEN v ELSE f[x]]

\* ------------------------------------------------------------------- state

VARIABLES
    \* print_and_store_models: arguments
    eq_list, tol, sig_digits, target, gens, latex_path, csv_path,
    \* the four returned dicts, the counters, the CSV rows
    raw_models, rescaled_models, cleaned_models, final_models,
    failed_models, successful_models, rows_for_csv,
    \* the LaTeX handle ("none", "open", "closed") and the blocks written to it
    latex_file, latex_out,
    \* the CSV file: [written, rows]
    csv_file,
    \* what was printed, in order
    console,
    \* the loop index and the names bound inside the loop body
    i, raw_expanded, rescaled, cleaned, final_expr,
    \* the rows the loop has entered, in order (history)
    visited,
    \* where control is: "solve", "rescale", "drop", "round", "emit",
    \* "finalize", "summary", "done" (returned), "raised" (an exception left
    \* the function)
    pc,
    \* generate_symbolic_equations_both_sides: arguments, loop index, result
    asm_n, asm_L, asm_R, asm_i, asm_eq_list, asm_pc,
    \* a call of one of the helper functions on its own: the function's name,
    \* its arguments, and what its steps have produced so far, in order
    fn_name, fn_arg, fn_out

ovars == <<eq_list, tol, sig_digits, target, gens, latex_path, csv_path,
           raw_models, rescaled_models, cleaned_models, final_models,
           failed_models, successful_models, rows_for_csv,
           latex_file, latex_out, csv_file, console,
           i, raw_expanded, rescaled, cleaned, final_expr, visited, pc>>

avars == <<asm_n, asm_L, asm_R, asm_i, asm_eq_list, asm_pc>>

fvars == <<fn_name, fn_arg, fn_out>>

vars == <<ovars, avars, fvars>>

inputs == <<eq_list, tol, sig_digits, target, gens, latex_path, csv_path>>
stores == <<raw_models, rescaled_models, cleaned_models, final_models>>
locals == <<raw_expanded, rescaled, cleaned, final_expr>>
sinks  == <<rows_for_csv, latex_file, latex_out, csv_file>>

n_rows == Len(eq_list)

\* the row the loop is at: enumerate(eq_list) counts from 0
eq == eq_list[i + 1]

\* ------------------------------------------------ print_and_store_models

\* ------------------------------- generate_symbolic_equations_both_sides

MaxFeatures == 2
MaxDim == 3

\* the entries of a coefficient matrix of the model, by row r and column c
\* (both counted from 0)
FillVal(fill, r, c) ==
    IF fill = "identity" THEN (IF r = c THEN 1 ELSE 0)
    ELSE IF fill = "ones" THEN 1
    ELSE IF fill = "ramp" THEN r + c
    ELSE 0

\* sp.Matrix(left_coeff): its shape and its entries
Matrix(rows, cols, fill) ==
    [rows |-> rows, cols |-> cols,
     at |-> [r \in 0..(rows - 1) |-> [c \in 0..(cols - 1) |-> FillVal(fill, r, c)]]]

Matrices(fills) ==
    {Matrix(r, c, f) : r \in 0..MaxDim, c \in 0..MaxDim, f \in fills}

\* M[r, c] raises IndexError outside the matrix
InRange(M, r, c) == r < M.rows /\ c < M.cols

\* the assembler is not running
AsmIdle ==
    /\ asm_n = 0
    /\ asm_L = Matrix(0, 0, "zeros")
    /\ asm_R = Matrix(0, 0, "zeros")
    /\ asm_i = 0
    /\ asm_eq_list = <<>>
    /\ asm_pc = "idle"

\* the state before the loop: the features are parsed, the symbols made and
\* the two matrices converted
AsmInit ==
    /\ asm_n \in 0..MaxFeatures
    /\ asm_L \in Matrices({"identity", "zeros"})
    /\ asm_R \in Matrices({"zeros", "ones", "ramp"})
    /\ asm_i = 0
    /\ asm_eq_list = <<>>
    /\ asm_pc = "loop"

\* the sums of row asm_i read L[i, j] and then R[i, j] for j in range(n)
RowReadable ==
    /\ \A j \in 0..(asm_n - 1) : InRange(asm_L, asm_i, j)
    /\ \A j \in 0..(asm_n - 1) : InRange(asm_R, asm_i, j)

\* np.eye(len(features), dtype=int)
generate_identity_matrix(n) == Matrix(n, n, "identity")

\* a row built as lhs + rhs
RowEquationSum(r) ==
    [j \in 0..(asm_n - 1) |-> asm_L.at[r][j] + asm_R.at[r][j]]

\* Eq(lhs - rhs, 0) of row r as its coefficient on each feature's monomial
RowEquation(r) ==
    [j \in 0..(asm_n - 1) |-> asm_L.at[r][j] - asm_R.at[r][j]]

\* one pass of the loop body: eq_list.append(sp.Eq(lhs - rhs, 0))
AsmBuildRow ==
    /\ asm_pc = "loop"
    /\ asm_i < asm_n
    /\ RowReadable
    /\ asm_eq_list' = Append(asm_eq_list, RowEquation(asm_i))
    /\ asm_i' = asm_i + 1
    /\ UNCHANGED <<asm_n, asm_L, asm_R, asm_pc, ovars, fvars>>

\* an entry outside a matrix is read: IndexError leaves the function
AsmIndexError ==
    /\ asm_pc = "loop"
    /\ asm_i < asm_n
    /\ ~RowReadable
    /\ asm_pc' = "raised"
    /\ UNCHANGED <<asm_n, asm_L, asm_R, asm_i, asm_eq_list, ovars, fvars>>

\* return eq_list, token_symbols
AsmReturn ==
    /\ asm_pc = "loop"
    /\ asm_i = asm_n
    /\ asm_pc' = "returned"
    /\ UNCHANGED <<asm_n, asm_L, asm_R, asm_i, asm_eq_list, ovars, fvars>>

AsmNext == AsmBuildRow \/ AsmIndexError \/ AsmReturn

\* ------------------------------------------------ print_and_store_models

\* no helper function is being called on its own
FnIdle ==
    /\ fn_name = "none"
    /\ fn_arg = <<>>
    /\ fn_out = <<>>

\* where the for loop goes after the body ends or continues at index k
LoopNext(k) == IF k + 1 < n_rows THEN "solve" ELSE "finalize"

\* the state before the loop: the dicts, counters and rows_for_csv are
\* empty and the LaTeX file has been opened if latex_path was given
OInit ==
    /\ eq_list \in EqLists
    /\ \E t \in TuningSet :
           /\ tol = t.tol
           /\ sig_digits = t.sig_digits
           /\ target = t.target
           /\ gens = t.gens
    /\ latex_path \in BOOLEAN
    /\ csv_path \in BOOLEAN
    /\ raw_models = EmptyMap
    /\ rescaled_models = EmptyMap
    /\ cleaned_models = EmptyMap
    /\ final_models = EmptyMap
    /\ failed_models = 0
    /\ successful_models = 0
    /\ rows_for_csv = <<>>
    /\ latex_file = IF latex_path THEN "open" ELSE "none"
    /\ latex_out = <<>>
    /\ csv_file = [written |-> FALSE, rows |-> <<>>]
    /\ console = <<>>
    /\ i = 0
    /\ raw_expanded = Unbound
    /\ rescaled = Unbound
    /\ cleaned = Unbound
    /\ final_expr = Unbound
    /\ visited = <<>>
    /\ pc = IF Len(eq_list) > 0 THEN "solve" ELSE "finalize"

Msg(ev, k) == [ev |-> ev, model |-> k, expr |-> Unbound, ok |-> 0, failed |-> 0]

\* the failure branch without failed_models += 1
FailRowUncounted(ev) ==
    /\ console' = Append(console, Msg(ev, i))
    /\ failed_models' = failed_models
    /\ i' = i + 1
    /\ pc' = LoopNext(i)

\* print(...); failed_models += 1; continue
FailRow(ev) ==
    /\ console' = Append(console, Msg(ev, i))
    /\ failed_models' = failed_models + 1
    /\ i' = i + 1
    /\ pc' = LoopNext(i)

\* raw = sols[0]
FirstSolution(sols) == Head(sols)

\* sp.solve raises: nothing in the function catches it
SolveRaise ==
    /\ pc = "solve"
    /\ SolveRaises(eq)
    /\ visited' = Append(visited, i)
    /\ pc' = "raised"
    /\ UNCHANGED <<inputs, stores, locals, sinks, console, i,
                   failed_models, successful_models, avars, fvars>>

\* sols = sp.solve(eq, xdot_symbol); if not sols: ... continue
SolveNone ==
    /\ pc = "solve"
    /\ ~SolveRaises(eq)
    /\ solve(eq) = <<>>
    /\ visited' = Append(visited, i)
    /\ FailRow("no_solution")
    /\ UNCHANGED <<inputs, stores, locals, sinks, successful_models, avars, fvars>>

\* raw = sols[0]; raw_expanded = together(expand(raw)); raw_models[i] = ...
SolveFound ==
    /\ pc = "solve"
    /\ ~SolveRaises(eq)
    /\ solve(eq) # <<>>
    /\ visited' = Append(visited, i)
    /\ raw_expanded' = TogetherExpand(FirstSolution(solve(eq)))
    /\ raw_models' = Put(raw_models, i, raw_expanded')
    /\ pc' = "rescale"
    /\ UNCHANGED <<inputs, rescaled_models, cleaned_models, final_models,
                   rescaled, cleaned, final_expr, sinks, console, i,
                   failed_models, successful_models, avars, fvars>>

\* num, _ = sp.fraction(raw_expanded); if num.is_zero: ... continue
ZeroNumerator ==
    /\ pc = "rescale"
    /\ NumIsZero(raw_expanded)
    /\ FailRow("zero_numerator")
    /\ UNCHANGED <<inputs, stores, locals, sinks, successful_models,
                   visited, avars, fvars>>

\* the rescale step reached without the zero-numerator check before it
RescaleUnchecked ==
    /\ pc = "rescale"
    /\ rescaled' = rescale_expression(raw_expanded, target, gens)
    /\ rescaled_models' = Put(rescaled_models, i, rescaled')
    /\ pc' = "drop"
    /\ UNCHANGED <<inputs, raw_models, cleaned_models, final_models,
                   raw_expanded, cleaned, final_expr, sinks, console, i,
                   failed_models, successful_models, visited, avars, fvars>>

\* rescaled = rescale_expression(...); rescaled_models[i] = rescaled
Rescale ==
    /\ pc = "rescale"
    /\ ~NumIsZero(raw_expanded)
    /\ rescaled' = rescale_expression(raw_expanded, target, gens)
    /\ rescaled_models' = Put(rescaled_models, i, rescaled')
    /\ pc' = "drop"
    /\ UNCHANGED <<inputs, raw_models, cleaned_models, final_models,
                   raw_expanded, cleaned, final_expr, sinks, console, i,
                   failed_models, successful_models, visited, avars, fvars>>

\* cleaned = drop_small_terms(rescaled, tol=tol);
\* if num_clean.is_zero: ... continue
Drop ==
    /\ pc = "drop"
    /\ cleaned' = drop_small_terms(rescaled, tol)
    /\ IF NumIsZero(cleaned')
       THEN FailRow("all_terms_dropped")
       ELSE /\ pc' = "round"
            /\ UNCHANGED <<console, failed_models, i>>
    /\ UNCHANGED <<inputs, stores, raw_expanded, rescaled, final_expr, sinks,
                   successful_models, visited, avars, fvars>>

\* the store step without successful_models += 1
RoundStoreUncounted ==
    /\ pc = "round"
    /\ final_expr' = RoundExpr(cleaned, sig_digits)
    /\ cleaned_models' = Put(cleaned_models, i, cleaned)
    /\ final_models' = Put(final_models, i, final_expr')
    /\ successful_models' = successful_models
    /\ pc' = "emit"
    /\ UNCHANGED <<inputs, raw_models, rescaled_models, raw_expanded,
                   rescaled, cleaned, sinks, console, i, failed_models,
                   visited, avars, fvars>>

\* the store step without cleaned_models[i] = cleaned
RoundStoreFinalOnly ==
    /\ pc = "round"
    /\ final_expr' = RoundExpr(cleaned, sig_digits)
    /\ final_models' = Put(final_models, i, final_expr')
    /\ successful_models' = successful_models + 1
    /\ pc' = "emit"
    /\ UNCHANGED <<inputs, raw_models, rescaled_models, cleaned_models,
                   raw_expanded, rescaled, cleaned, sinks, console, i,
                   failed_models, visited, avars, fvars>>

\* final_expr = expand_rational_expr(cleaned.evalf(sig_digits));
\* cleaned_models[i] = cleaned; final_models[i] = final_expr;
\* successful_models += 1
RoundStore ==
    /\ pc = "round"
    /\ final_expr' = RoundExpr(cleaned, sig_digits)
    /\ cleaned_models' = Put(cleaned_models, i, cleaned)
    /\ final_models' = Put(final_models, i, final_expr')
    /\ successful_models' = successful_models + 1
    /\ pc' = "emit"
    /\ UNCHANGED <<inputs, raw_models, rescaled_models, raw_expanded,
                   rescaled, cleaned, sinks, console, i, failed_models,
                   visited, avars, fvars>>

\* any(coefficient < 0 for the terms of den_clean)
HasNegative(expr) == \E m \in DOMAIN expr.den : expr.den[m].n < 0

\* a record that counts a denominator of 1 as no term
CsvRowNoUnitDen(k, fin, cl) ==
    [Model |-> k, Equation |-> fin,
     NumTerms |-> NTerms(cl.num),
     DenTerms |-> IF cl.den = OnePoly THEN 0 ELSE NTerms(cl.den),
     AnyNegative |-> HasNegative(cl)]

\* the dict appended to rows_for_csv; the term counts and the flag are read
\* from num_clean, den_clean = sp.fraction(cleaned)
CsvRow(k, fin, cl) ==
    [Model |-> k, Equation |-> fin,
     NumTerms |-> NTerms(cl.num), DenTerms |-> NTerms(cl.den),
     AnyNegative |-> HasNegative(cl)]

\* the outputs numbered by the count of successful models, not by i
EmitCounted ==
    /\ pc = "emit"
    /\ console' = Append(console, [Msg("block", successful_models - 1)
                                      EXCEPT !.expr = final_expr])
    /\ latex_out' = IF latex_file = "open"
                    THEN Append(latex_out, [Model |-> successful_models - 1,
                                            Equation |-> final_expr])
                    ELSE latex_out
    /\ rows_for_csv' = Append(rows_for_csv,
                              CsvRow(successful_models - 1, final_expr, cleaned))
    /\ i' = i + 1
    /\ pc' = LoopNext(i)
    /\ UNCHANGED <<inputs, stores, locals, latex_file, csv_file,
                   failed_models, successful_models, visited, avars, fvars>>

\* print_rational_eq(i, xdot_symbol, final_expr); the LaTeX block; the CSV row
Emit ==
    /\ pc = "emit"
    /\ console' = Append(console, [Msg("block", i) EXCEPT !.expr = final_expr])
    /\ latex_out' = IF latex_file = "open"
                    THEN Append(latex_out, [Model |-> i, Equation |-> final_expr])
                    ELSE latex_out
    /\ rows_for_csv' = Append(rows_for_csv, CsvRow(i, final_expr, cleaned))
    /\ i' = i + 1
    /\ pc' = LoopNext(i)
    /\ UNCHANGED <<inputs, stores, locals, latex_file, csv_file,
                   failed_models, successful_models, visited, avars, fvars>>

\* if latex_file: latex_file.close(); if csv_path: DataFrame(...).to_csv(...)
Finalize ==
    /\ pc = "finalize"
    /\ latex_file' = IF latex_file = "open" THEN "closed" ELSE latex_file
    /\ csv_file' = IF csv_path THEN [written |-> TRUE, rows |-> rows_for_csv]
                   ELSE csv_file
    /\ pc' = "summary"
    /\ UNCHANGED <<inputs, stores, locals, rows_for_csv, latex_out, console,
                   i, failed_models, successful_models, visited, avars, fvars>>

\* the summary report; return the four dicts
Summary ==
    /\ pc = "summary"
    /\ console' = Append(console,
                         [Msg("summary", n_rows) EXCEPT
                             !.ok = successful_models,
                             !.failed = failed_models])
    /\ pc' = "done"
    /\ UNCHANGED <<inputs, stores, locals, sinks, i, failed_models,
                   successful_models, visited, avars, fvars>>

Next ==
    \/ SolveRaise
    \/ SolveNone
    \/ SolveFound
    \/ ZeroNumerator
    \/ Rescale
    \/ Drop
    \/ RoundStore
    \/ Emit
    \/ Finalize
    \/ Summary

Init == OInit /\ AsmIdle /\ FnIdle

Spec == Init /\ [][Next]_vars

\* print_and_store_models is not running
OIdle ==
    /\ eq_list = <<>>
    /\ tol = CZero
    /\ sig_digits = 0
    /\ target = NoTarget
    /\ gens = NoGens
    /\ latex_path = FALSE
    /\ csv_path = FALSE
    /\ raw_models = EmptyMap
    /\ rescaled_models = EmptyMap
    /\ cleaned_models = EmptyMap
    /\ final_models = EmptyMap
    /\ failed_models = 0
    /\ successful_models = 0
    /\ rows_for_csv = <<>>
    /\ latex_file = "none"
    /\ latex_out = <<>>
    /\ csv_file = [written |-> FALSE, rows |-> <<>>]
    /\ console = <<>>
    /\ i = 0
    /\ raw_expanded = Unbound
    /\ rescaled = Unbound
    /\ cleaned = Unbound
    /\ final_expr = Unbound
    /\ visited = <<>>
    /\ pc = "idle"

\* the assembler alone
InitAsm == AsmInit /\ OIdle /\ FnIdle

SpecAsm == InitAsm /\ [][AsmNext]_vars

\* ------------------------------------------------- reading a run's results

Rows == 0..(n_rows - 1)

FailEvents == {"no_solution", "zero_numerator", "all_terms_dropped"}

\* the positions of the console lines of the given kinds
Printed(evs) == {k \in DOMAIN console : console[k].ev \in evs}

\* rows counted as failed, rows stored as final, rows with an output block
FailedRows == {console[k].model : k \in Printed(FailEvents)}
FinalRows == DOMAIN final_models
BlockRows == {console[k].model : k \in Printed({"block"})}
LatexRows == {latex_out[k].Model : k \in DOMAIN latex_out}
CsvRows ==
    {rows_for_csv[k].Model : k \in DOMAIN rows_for_csv}
        \cup {csv_file.rows[k].Model : k \in DOMAIN csv_file.rows}

\* the call is over: it returned, or an exception left it
BatchEnded == pc \in {"done", "raised"}

\* what the stages make of one equation under the run's configuration
Solvable(e) == ~SolveRaises(e) /\ solve(e) # <<>>
RawOf(e) == TogetherExpand(FirstSolution(solve(e)))
RescaledOf(e) == rescale_expression(RawOf(e), target, gens)
CleanedOf(e) == drop_small_terms(RescaledOf(e), tol)
FinalOf(e) == RoundExpr(CleanedOf(e), sig_digits)

NoSolutionRow(j) ==
    ~SolveRaises(eq_list[j + 1]) /\ solve(eq_list[j + 1]) = <<>>

ZeroNumeratorRow(j) ==
    Solvable(eq_list[j + 1]) /\ IsZeroPoly(RawOf(eq_list[j + 1]).num)

Increasing(s, key(_)) ==
    \A a, b \in DOMAIN s : a < b => key(s[a]) < key(s[b])

ModelOf(r) == r.Model

Get(f, k) == IF k \in DOMAIN f THEN f[k] ELSE Unbound

\* ---------------------------------------------------------------- claims

\* C1: every row of eq_list ends in exactly one terminal outcome, Final
\* (stored in final_models and counted as succeeded) or Failed (counted as
\* failed); no row is both, and the counters count exactly these rows.
C1_OneTerminalOutcome ==
    /\ FinalRows \cap FailedRows = {}
    /\ successful_models = Cardinality(FinalRows)
    /\ failed_models = Cardinality(FailedRows)
    /\ BatchEnded => \A j \in Rows : j \in FinalRows \cup FailedRows

\* C1, the part that holds: Final and Failed never overlap, and a row that
\* is Final or Failed stays so, with the expressions stored for it unchanged.
C1_OutcomeStays ==
    \A j \in Rows :
        /\ j \in FinalRows => j \in FinalRows' /\ j \notin FailedRows'
        /\ j \in FailedRows => j \in FailedRows' /\ j \notin FinalRows'
        /\ j \in FinalRows \cup FailedRows =>
              /\ Get(raw_models, j)' = Get(raw_models, j)
              /\ Get(rescaled_models, j)' = Get(rescaled_models, j)
              /\ Get(cleaned_models, j)' = Get(cleaned_models, j)
              /\ Get(final_models, j)' = Get(final_models, j)

C1_ExclusiveAndPermanent ==
    [](FinalRows \cap FailedRows = {}) /\ [][C1_OutcomeStays]_vars

\* no row of the batch makes sp.solve raise
NoRowRaises == \A j \in Rows : ~SolveRaises(eq_list[j + 1])

\* C1 on the batches where no row raises
C1_WhenNoRowRaises == NoRowRaises => C1_OneTerminalOutcome

\* C2: every row 0..n-1 is visited exactly once, in order, and the call ends
\* after printing the summary exactly once, with total = len(eq_list).
C2_AllRowsThenOneSummary ==
    /\ \A k \in DOMAIN visited : visited[k] = k - 1
    /\ Cardinality(Printed({"summary"})) <= 1
    /\ BatchEnded =>
          /\ Len(visited) = n_rows
          /\ Printed({"summary"}) = {Len(console)}
          /\ console[Len(console)].model = n_rows

\* C2 on the batches where no row raises
C2_WhenNoRowRaises == NoRowRaises => C2_AllRowsThenOneSummary

\* C3: a row with no solution, or whose solved expression has a zero
\* numerator, is never in rescaled_models, cleaned_models or final_models and
\* never has a console block, a LaTeX block or a CSV record.
C3_EarlyFailuresGoNoFurther ==
    \A j \in Rows :
        NoSolutionRow(j) \/ ZeroNumeratorRow(j) =>
            /\ j \notin DOMAIN rescaled_models
            /\ j \notin DOMAIN cleaned_models
            /\ j \notin DOMAIN final_models
            /\ j \notin BlockRows \cup LatexRows \cup CsvRows

\* a finished batch with a zero-numerator row (kept in raw_models only) next
\* to an exported row
C3_Witness ==
    /\ pc = "done"
    /\ \E j \in Rows : ZeroNumeratorRow(j) /\ j \in FailedRows
                          /\ j \in DOMAIN raw_models
    /\ csv_file.written /\ csv_file.rows # <<>> /\ latex_out # <<>>

\* C4: at every point, each of the four dicts holds index j only if row j
\* reached that stage, holding what the stage made of the row, so
\* keys(final) <= keys(cleaned) <= keys(rescaled) <= keys(raw).
C4_StoresHoldReachedStages ==
    /\ DOMAIN final_models \subseteq DOMAIN cleaned_models
    /\ DOMAIN cleaned_models \subseteq DOMAIN rescaled_models
    /\ DOMAIN rescaled_models \subseteq DOMAIN raw_models
    /\ DOMAIN raw_models \subseteq Rows
    /\ \A j \in DOMAIN raw_models :
          /\ j \in {visited[k] : k \in DOMAIN visited}
          /\ Solvable(eq_list[j + 1])
          /\ raw_models[j] = RawOf(eq_list[j + 1])
    /\ \A j \in DOMAIN rescaled_models :
          /\ ~IsZeroPoly(raw_models[j].num)
          /\ rescaled_models[j]
                = rescale_expression(raw_models[j], target, gens)
    /\ \A j \in DOMAIN cleaned_models :
          /\ cleaned_models[j] = drop_small_terms(rescaled_models[j], tol)
          /\ ~IsZeroPoly(cleaned_models[j].num)
    /\ \A j \in DOMAIN final_models :
          final_models[j] = RoundExpr(cleaned_models[j], sig_digits)

\* a row stopped after raw, and the row after it is rescaled but not yet
\* cleaned: the dicts differ at two links of the chain
C4_Witness ==
    /\ DOMAIN cleaned_models # DOMAIN rescaled_models
    /\ DOMAIN rescaled_models # DOMAIN raw_models
    /\ \E j \in DOMAIN raw_models : j < i /\ j \notin DOMAIN rescaled_models

\* C5: rows are entered in increasing index order; console blocks, LaTeX
\* blocks and CSV records come out in strictly increasing model index, and
\* each carries the index its row has in eq_list and that row's final model.
C5_RecordsKeepRowIndex ==
    /\ \A k \in DOMAIN visited : visited[k] = k - 1
    /\ \A a, b \in Printed({"block"}) :
          a < b => console[a].model < console[b].model
    /\ Increasing(latex_out, ModelOf)
    /\ Increasing(rows_for_csv, ModelOf)
    /\ Increasing(csv_file.rows, ModelOf)
    /\ \A k \in Printed({"block"}) :
          /\ console[k].model \in Rows
          /\ console[k].model \in FinalRows
          /\ console[k].expr = final_models[console[k].model]
    /\ \A k \in DOMAIN latex_out :
          /\ latex_out[k].Model \in Rows
          /\ latex_out[k].Model \in FinalRows
          /\ latex_out[k].Equation = final_models[latex_out[k].Model]
    /\ \A k \in DOMAIN rows_for_csv :
          /\ rows_for_csv[k].Model \in Rows
          /\ rows_for_csv[k].Model \in FinalRows
          /\ rows_for_csv[k].Equation = final_models[rows_for_csv[k].Model]
    /\ csv_file.written => csv_file.rows = rows_for_csv
    /\ \A j \in FinalRows : final_models[j] = FinalOf(eq_list[j + 1])

\* a finished batch whose first row failed: the exports hold row 1 as 1
C5_Witness ==
    /\ pc = "done"
    /\ 0 \in FailedRows
    /\ csv_file.written
    /\ Len(csv_file.rows) = 1 /\ csv_file.rows[1].Model = 1
    /\ Len(latex_out) = 1 /\ latex_out[1].Model = 1
    /\ BlockRows = {1}

\* C6: with len(features), L.rows, L.cols, R.rows, R.cols not all equal, the
\* assembler fails before any row's equation is built: it never returns and
\* never has a row built.
DimensionMismatch ==
    ~(/\ asm_L.rows = asm_n /\ asm_L.cols = asm_n
      /\ asm_R.rows = asm_n /\ asm_R.cols = asm_n)

C6_MismatchFailsBeforeAnyRow ==
    asm_pc # "idle" /\ DimensionMismatch =>
        asm_pc # "returned" /\ asm_eq_list = <<>>

\* C7: drop_small_terms' undefined sentinel. No row of the model makes
\* drop_small_terms return it inside print_and_store_models: the denominator
\* it is handed is never the zero polynomial and the largest term is kept.
SentinelNeverArises ==
    /\ cleaned.kind # "zoo"
    /\ \A j \in DOMAIN rescaled_models :
          /\ rescaled_models[j].kind = "ratio"
          /\ ~IsZeroPoly(rescaled_models[j].den)

\* C8: when latex_path is given, the LaTeX handle is closed when the call is
\* over, whether it returned or a row raised.
C8_HandleClosedAtEnd ==
    BatchEnded /\ latex_path => latex_file = "closed"

\* C8 on return: the handle is closed whenever the call returns
C8_ClosedOnReturn == pc = "done" /\ latex_path => latex_file = "closed"

\* C9: a row with no solution is stored in none of the four dicts, has no
\* export record, and its step adds exactly 1 to the failure count and
\* leaves every dict and export as it was; the other rows hold what their
\* own equation gives.
C9_NoSolutionInvariant ==
    /\ \A j \in Rows :
          NoSolutionRow(j) =>
              /\ j \notin DOMAIN raw_models \cup DOMAIN rescaled_models
              /\ j \notin DOMAIN cleaned_models \cup DOMAIN final_models
              /\ j \notin BlockRows \cup LatexRows \cup CsvRows
              /\ j < i => j \in FailedRows
    /\ \A j \in DOMAIN final_models :
          /\ raw_models[j] = RawOf(eq_list[j + 1])
          /\ final_models[j] = FinalOf(eq_list[j + 1])

C9_NoSolutionStep ==
    (pc = "solve" /\ NoSolutionRow(i)) =>
        /\ failed_models' = failed_models + 1
        /\ successful_models' = successful_models
        /\ console' = Append(console, Msg("no_solution", i))
        /\ i' = i + 1
        /\ UNCHANGED <<stores, sinks>>

C9_NoSolutionOnlyCounted ==
    [](C9_NoSolutionInvariant) /\ [][C9_NoSolutionStep]_vars

\* a finished batch with a no-solution row before an exported row
C9_Witness ==
    /\ pc = "done"
    /\ n_rows = 2
    /\ NoSolutionRow(0)
    /\ failed_models = 1
    /\ FinalRows = {1}
    /\ CsvRows = {1}

\* C10: the outcome of row j (terminal state, raw, rescaled, cleaned and
\* final expressions) is what eq_list[j] alone gives under the configuration,
\* whatever the other rows are.
OutcomeIn(j) ==
    [state |-> IF j \in FinalRows THEN "final"
               ELSE IF j \in FailedRows
                    THEN (CHOOSE ev \in FailEvents :
                            \E k \in Printed({ev}) : console[k].model = j)
                    ELSE "none",
     raw |-> Get(raw_models, j),
     rescaled |-> Get(rescaled_models, j),
     cleaned |-> Get(cleaned_models, j),
     final |-> Get(final_models, j)]

OutcomeOf(e) ==
    IF SolveRaises(e)
    THEN [state |-> "none", raw |-> Unbound, rescaled |-> Unbound,
          cleaned |-> Unbound, final |-> Unbound]
    ELSE IF solve(e) = <<>>
    THEN [state |-> "no_solution", raw |-> Unbound, rescaled |-> Unbound,
          cleaned |-> Unbound, final |-> Unbound]
    ELSE IF IsZeroPoly(RawOf(e).num)
    THEN [state |-> "zero_numerator", raw |-> RawOf(e), rescaled |-> Unbound,
          cleaned |-> Unbound, final |-> Unbound]
    ELSE IF IsZeroPoly(CleanedOf(e).num)
    THEN [state |-> "all_terms_dropped", raw |-> RawOf(e),
          rescaled |-> RescaledOf(e), cleaned |-> Unbound, final |-> Unbound]
    ELSE [state |-> "final", raw |-> RawOf(e), rescaled |-> RescaledOf(e),
          cleaned |-> CleanedOf(e), final |-> FinalOf(e)]

C10_OutcomeOfRowAlone ==
    BatchEnded => \A j \in Rows : OutcomeIn(j) = OutcomeOf(eq_list[j + 1])

\* C10 on the batches where no row raises
C10_WhenNoRowRaises == NoRowRaises => C10_OutcomeOfRowAlone

\* C11: an error raised while a row is processed stays in that row: the
\* call still ends by returning, with every row visited, the LaTeX file
\* closed, the CSV file written and the summary printed.
C11_RaiseStaysInRow ==
    BatchEnded =>
        /\ pc = "done"
        /\ Len(visited) = n_rows
        /\ latex_path => latex_file = "closed"
        /\ csv_path => csv_file.written
        /\ Printed({"summary"}) # {}

\* ------------------------------------------ drop_small_terms on its own

\* the two sides of an input draw their terms from the first MaxSideTerms
\* monomials of this list
MaxSideTerms == 2

MonoList == <<MonoX0, MonoX1, MonoOne, <<1, 1>> >>

SideMonos == {MonoList[k] : k \in 1..MaxSideTerms}

\* 1e-7, 0.3, 0.8 and -2
SideCoefs == {Tiny, MkCoef(3, 10, 0), MkCoef(4, 5, 0), C(-2)}

\* the polynomials with these monomials and coefficients (and the zero one)
SidePolys ==
    {PolyOf({<<m, f[m]>> : m \in SideMonos}) :
        f \in [SideMonos -> SideCoefs \cup {CZero}]}

\* the tolerances: the default 1e-6, 0.5, and 0.3, which is also a
\* coefficient of the inputs
DropTols == {MkCoef(1, 1, 1), MkCoef(1, 2, 0), MkCoef(3, 10, 0)}

\* the expressions SymPy holds for N/D, D not zero
RationalExprs == {MkExpr(N, D) : N \in SidePolys, D \in SidePolys \ {ZeroPoly}}

\* what one call of drop_small_terms computes: the two cleaned sides and the
\* value returned
DropCall(e, t) ==
    [num_clean |-> CleanSide(e.num, t),
     den_clean |-> CleanSide(e.den, t),
     result |-> drop_small_terms(e, t)]

DropInit ==
    /\ fn_name = "drop_small_terms"
    /\ fn_arg \in [expr : RationalExprs, tol : DropTols]
    /\ fn_out = <<>>

\* cleaned = drop_small_terms(e, tol)
DropFirst ==
    /\ fn_name = "drop_small_terms"
    /\ Len(fn_out) = 0
    /\ fn_out' = <<DropCall(fn_arg.expr, fn_arg.tol)>>
    /\ UNCHANGED <<fn_name, fn_arg, ovars, avars>>

\* drop_small_terms(cleaned, tol)
DropAgain ==
    /\ fn_name = "drop_small_terms"
    /\ Len(fn_out) = 1
    /\ fn_out' = Append(fn_out, DropCall(fn_out[1].result, fn_arg.tol))
    /\ UNCHANGED <<fn_name, fn_arg, ovars, avars>>

DropNext == DropFirst \/ DropAgain

InitDrop == DropInit /\ OIdle /\ AsmIdle

SpecDrop == InitDrop /\ [][DropNext]_vars

\* C12: drop_small_terms is idempotent: a second pass with the same
\* tolerance returns what the first pass returned.
C12_DropIdempotent ==
    fn_name = "drop_small_terms" /\ Len(fn_out) = 2 =>
        fn_out[2].result = fn_out[1].result

\* the expression the k-th pass was called on
DropInput(k) == IF k = 1 THEN fn_arg.expr ELSE fn_out[k - 1].result

\* side P, all of whose terms are at most t in magnitude, was cleaned to Q:
\* Q is one term of P, and no term of P has a larger coefficient magnitude
KeptLargest(P, Q, t) ==
    (~IsZeroPoly(P) /\ \A m \in DOMAIN P : ~CAbsGt(P[m], t)) =>
        /\ Cardinality(DOMAIN Q) = 1
        /\ \A m \in DOMAIN Q :
              /\ m \in DOMAIN P
              /\ Q[m] = P[m]
              /\ \A m2 \in DOMAIN P : ~CAbsGt(P[m2], P[m])

\* C13: when the tolerance filter removes every term of a side that had at
\* least one term, the cleaned side is exactly the one original term of
\* largest coefficient magnitude; no side with terms is cleaned to nothing.
C13_FallbackKeepsLargestTerm ==
    fn_name = "drop_small_terms" =>
        \A k \in DOMAIN fn_out :
            /\ KeptLargest(DropInput(k).num, fn_out[k].num_clean, fn_arg.tol)
            /\ KeptLargest(DropInput(k).den, fn_out[k].den_clean, fn_arg.tol)
            /\ ~IsZeroPoly(DropInput(k).num) => ~IsZeroPoly(fn_out[k].num_clean)
            /\ ~IsZeroPoly(DropInput(k).den) => ~IsZeroPoly(fn_out[k].den_clean)

\* a numerator of two terms, 1e-7*x0 + 0.3*x1, both at most tol = 0.5, was
\* cleaned to its larger term
C13_Witness ==
    /\ fn_name = "drop_small_terms"
    /\ Len(fn_out) = 1
    /\ fn_arg.tol = MkCoef(1, 2, 0)
    /\ fn_arg.expr.num = PolyOf({<<MonoX0, Tiny>>, <<MonoX1, MkCoef(3, 10, 0)>>})
    /\ fn_out[1].num_clean = PolyOf({<<MonoX1, MkCoef(3, 10, 0)>>})

\* ---------------------------------------- rescale_expression on its own

\* the denominators of the inputs draw their terms from the first
\* MaxDenTerms monomials of this list
MaxDenTerms == 3

DenMonoList == <<MonoX0, MonoOne, MonoX1, <<1, 1>> >>

DenMonos == {DenMonoList[k] : k \in 1..MaxDenTerms}

\* 2 and -4, and for floating-point inputs 1e-13, below the rescaler's floor
DenCoefs(kind) ==
    IF kind = "exact" THEN {C(2), C(-4)}
    ELSE {C(2), C(-4), MkCoef(1, 10, 2)}

DenPolys(kind) ==
    {PolyOf({<<m, f[m]>> : m \in DenMonos}) :
        f \in [DenMonos -> DenCoefs(kind) \cup {CZero}]} \ {ZeroPoly}

\* the numerators 3*x1 and 6*x0 + 3
NumPolys ==
    {PolyOf({<<MonoX1, C(3)>>}),
     PolyOf({<<MonoX0, C(6)>>, <<MonoOne, C(3)>>})}

\* the expressions SymPy holds for N/D, with floating-point and with
\* Integer coefficients
RescaleExprs ==
    {Quot(kind, N, D) : kind \in {"ratio", "exact"}, N \in NumPolys,
                        D \in DenPolys("ratio")}
        \ {Quot("exact", N, D) : N \in NumPolys,
                                 D \in DenPolys("ratio") \ DenPolys("exact")}

\* target: None, x0, x1 or x0*x1; gens: None, [x1, x0] or [x0]
RescaleTargets == {NoTarget, MonoX0, MonoX1, <<1, 1>>}

RescaleGens == {NoGens, <<2, 1>>, <<1>>}

\* what one call of rescale_expression computes: whether a scaling
\* coefficient was found, used_monomial and scaling_coeff (None when not
\* found), and the value returned
RescaleCall(e, tg, gn) ==
    [success |-> RescaleSucceeds(e, tg, gn),
     used_monomial |-> IF RescaleSucceeds(e, tg, gn)
                       THEN UsedMonomial(e, tg, gn) ELSE NoTarget,
     scaling_coeff |-> IF RescaleSucceeds(e, tg, gn)
                       THEN ScalingCoeff(e, tg, gn) ELSE CZero,
     result |-> rescale_expression(e, tg, gn)]

RescaleInit ==
    /\ fn_name = "rescale_expression"
    /\ fn_arg \in [expr : RescaleExprs, target : RescaleTargets,
                   gens : RescaleGens]
    /\ fn_out = <<>>

\* rescale_expression(expr, target=target, gens=gens)
RescaleApply ==
    /\ fn_name = "rescale_expression"
    /\ Len(fn_out) = 0
    /\ fn_out' = <<RescaleCall(fn_arg.expr, fn_arg.target, fn_arg.gens)>>
    /\ UNCHANGED <<fn_name, fn_arg, ovars, avars>>

\* the same call without a target
RescaleNoTarget ==
    /\ fn_name = "rescale_expression"
    /\ Len(fn_out) = 1
    /\ fn_out' = Append(fn_out, RescaleCall(fn_arg.expr, NoTarget, fn_arg.gens))
    /\ UNCHANGED <<fn_name, fn_arg, ovars, avars>>

RescaleNext == RescaleApply \/ RescaleNoTarget

InitRescale == RescaleInit /\ OIdle /\ AsmIdle

SpecRescale == InitRescale /\ [][RescaleNext]_vars

Rescaling == fn_name = "rescale_expression"

\* C14: after a successful rescale the denominator of the returned
\* expression has coefficient exactly 1 on the chosen monomial, also for
\* one-term denominators and Integer/Rational coefficients.
C14_ChosenCoefficientIsOne ==
    Rescaling =>
        \A k \in DOMAIN fn_out :
            fn_out[k].success =>
                /\ fn_out[k].used_monomial \in DOMAIN fn_out[k].result.den
                /\ fn_out[k].result.den[fn_out[k].used_monomial] = COne

\* out is e with numerator and denominator divided by one nonzero constant
SameValue(e, out) ==
    \/ out = e
    \/ /\ IsRational(e) /\ out.kind = e.kind
       /\ DOMAIN out.den = DOMAIN e.den
       /\ \E m \in DOMAIN e.den :
             LET c == CDiv(e.den[m], out.den[m])
             IN  /\ out.den = PolyDivC(e.den, c)
                 /\ out.num = PolyDivC(e.num, c)

\* C15: rescale_expression preserves the value of the expression: the
\* result is the input with numerator and denominator divided by the same
\* nonzero constant, on the success path and on every no-op path.
C15_RescalePreservesValue ==
    Rescaling =>
        \A k \in DOMAIN fn_out : SameValue(fn_arg.expr, fn_out[k].result)

\* a successful rescale by -4 of an expression with three denominator terms
C15_Witness ==
    /\ Rescaling
    /\ Len(fn_out) = 1
    /\ fn_out[1].success
    /\ fn_out[1].scaling_coeff = C(-4)
    /\ Cardinality(DOMAIN fn_arg.expr.den) = 3
    /\ fn_out[1].result # fn_arg.expr

\* the target monomial is in the denominator with a coefficient above 1e-12
TargetPresent ==
    /\ fn_arg.target \in DOMAIN fn_arg.expr.den
    /\ CAbsGt(fn_arg.expr.den[fn_arg.target], CoefFloor)

\* C16: a target present in the denominator with a usable coefficient gives
\* the scaling factor; with any other target the rescaler falls back to the
\* leading monomial and returns what the call without a target returns.
C16_TargetElseLeadingTerm ==
    (Rescaling /\ Len(fn_out) = 2 /\ fn_arg.target # NoTarget
        /\ fn_arg.gens = NoGens /\ ~DenIsNumber(fn_arg.expr)) =>
        IF TargetPresent
        THEN /\ fn_out[1].success
             /\ fn_out[1].used_monomial = fn_arg.target
             /\ fn_out[1].scaling_coeff = fn_arg.expr.den[fn_arg.target]
        ELSE fn_out[1].result = fn_out[2].result

\* ------------------------------------------------- feature-name parsing
\* A feature string is the sequence of its characters; a token is the
\* sequence of the characters it spans.

\* [a-zA-Z] and \d over the characters the inputs are built from
IsLetter(c) == c \in {"x", "y", "d", "o", "t"}

IsDigit(c) == c \in {"0", "1", "2"}

\* code point of a character, the order Python compares strings by
Ord(c) ==
    CASE c = "0" -> 48 [] c = "1" -> 49 [] c = "2" -> 50 [] c = "_" -> 95
      [] c = "d" -> 100 [] c = "o" -> 111 [] c = "t" -> 116
      [] c = "x" -> 120 [] c = "y" -> 121

RECURSIVE DigitsEnd(_, _)
\* \d* from position p: the position after the longest run of digits
DigitsEnd(s, p) ==
    IF p <= Len(s) /\ IsDigit(s[p]) THEN DigitsEnd(s, p + 1) ELSE p

\* s holds the characters w from position p on
HasAt(s, p, w) ==
    /\ p + Len(w) - 1 <= Len(s)
    /\ \A k \in 1..Len(w) : s[p + k - 1] = w[k]

\* ([a-zA-Z]\d*)(_dot|_t) matched at position p: the position after the
\* match, 0 when there is no match at p
DerivEnd(s, p) ==
    IF p <= Len(s) /\ IsLetter(s[p])
    THEN LET q == DigitsEnd(s, p + 1)
         IN  IF HasAt(s, q, <<"_", "d", "o", "t">>) THEN q + 4
             ELSE IF HasAt(s, q, <<"_", "t">>) THEN q + 2
             ELSE 0
    ELSE 0

RECURSIVE finditer(_, _)
\* re.finditer of the derivative pattern from position p on: the
\* non-overlapping matches left to right, each as <<start, end>>
finditer(s, p) ==
    IF p > Len(s) THEN <<>>
    ELSE IF DerivEnd(s, p) # 0
         THEN <<<<p, DerivEnd(s, p)>>>> \o finditer(s, DerivEnd(s, p))
         ELSE finditer(s, p + 1)

RECURSIVE findall(_, _)
\* re.findall(r"[a-zA-Z]\d*", s) from position p on
findall(s, p) ==
    IF p > Len(s) THEN <<>>
    ELSE IF IsLetter(s[p])
         THEN <<SubSeq(s, p, DigitsEnd(s, p + 1) - 1)>>
                  \o findall(s, DigitsEnd(s, p + 1))
         ELSE findall(s, p + 1)

RECURSIVE ParseLoopNoLeftover(_, _, _, _)
\* the loop over the matches without the step for the leftover
ParseLoopNoLeftover(feature, matches, k, last) ==
    IF k > Len(matches) THEN <<>>
    ELSE LET prefix == SubSeq(feature, last, matches[k][1] - 1)
         IN  (IF prefix # <<>> THEN findall(prefix, 1) ELSE <<>>)
                 \o <<SubSeq(feature, matches[k][1], matches[k][2] - 1)>>
                 \o ParseLoopNoLeftover(feature, matches, k + 1, matches[k][2])

RECURSIVE ParseLoop(_, _, _, _)
\* the loop over the matches from the k-th on, and the leftover after it
ParseLoop(feature, matches, k, last) ==
    IF k > Len(matches)
    THEN IF last <= Len(feature)
         THEN findall(SubSeq(feature, last, Len(feature)), 1)
         ELSE <<>>
    ELSE LET prefix == SubSeq(feature, last, matches[k][1] - 1)
         IN  (IF prefix # <<>> THEN findall(prefix, 1) ELSE <<>>)
                 \o <<SubSeq(feature, matches[k][1], matches[k][2] - 1)>>
                 \o ParseLoop(feature, matches, k + 1, matches[k][2])

\* a parser without the derivative pattern
ParsePlainOnly(feature) == findall(feature, 1)

parse_feature(feature) ==
    LET matches == finditer(feature, 1)
    IN  IF matches = <<>> THEN findall(feature, 1)
        ELSE ParseLoop(feature, matches, 1, 1)

\* the pieces feature strings are put together from
StrX0 == <<"x", "0">>

StrX1 == <<"x", "1">>

StrX2 == <<"x", "2">>

StrDot == <<"_", "d", "o", "t">>

StrT == <<"_", "t">>

StrOne == <<"1">>

StrY == <<"y">>

Pieces == {StrX0, StrX1, StrX2, StrDot, StrT, StrOne, StrY}

\* feature strings of at most MaxPieces pieces
MaxPieces == 4

RECURSIVE StringsOf(_)
StringsOf(n) ==
    IF n = 0 THEN {<<>>}
    ELSE StringsOf(n - 1)
             \cup {s \o w : s \in StringsOf(n - 1), w \in Pieces}

ParseInit ==
    /\ fn_name = "parse_feature"
    /\ fn_arg \in StringsOf(MaxPieces)
    /\ fn_out = <<>>

\* parse_feature(feature)
ParseApply ==
    /\ fn_name = "parse_feature"
    /\ Len(fn_out) = 0
    /\ fn_out' = <<parse_feature(fn_arg)>>
    /\ UNCHANGED <<fn_name, fn_arg, ovars, avars>>

InitParse == ParseInit /\ OIdle /\ AsmIdle

SpecParse == InitParse /\ [][ParseApply]_vars

RECURSIVE TokensInOrder(_, _)
\* the tokens of s read off in one pass from position p: a derivative
\* token where one starts, else a plain token where a letter stands
TokensInOrder(s, p) ==
    IF p > Len(s) THEN <<>>
    ELSE IF DerivEnd(s, p) # 0
         THEN <<SubSeq(s, p, DerivEnd(s, p) - 1)>>
                  \o TokensInOrder(s, DerivEnd(s, p))
         ELSE IF IsLetter(s[p])
              THEN <<SubSeq(s, p, DigitsEnd(s, p + 1) - 1)>>
                       \o TokensInOrder(s, DigitsEnd(s, p + 1))
              ELSE TokensInOrder(s, p + 1)

Parsing == fn_name = "parse_feature" /\ Len(fn_out) = 1

\* C17: parse_feature returns the derivative tokens and the plain tokens
\* of the feature string interleaved in their order of occurrence;
\* "x0x1x2_dot" gives (x0, x1, x2_dot), "x1x2_t" gives (x1, x2_t), "x0x1"
\* gives (x0, x1) and "1" gives ().
C17_TokensInOrderOfOccurrence ==
    Parsing =>
        /\ fn_out[1] = TokensInOrder(fn_arg, 1)
        /\ fn_arg = StrX0 \o StrX1 \o StrX2 \o StrDot
               => fn_out[1] = <<StrX0, StrX1, StrX2 \o StrDot>>
        /\ fn_arg = StrX1 \o StrX2 \o StrT => fn_out[1] = <<StrX1, StrX2 \o StrT>>
        /\ fn_arg = StrX0 \o StrX1 => fn_out[1] = <<StrX0, StrX1>>
        /\ fn_arg = StrOne => fn_out[1] = <<>>

C17_Witness ==
    /\ Parsing
    /\ fn_arg = StrX0 \o StrX1 \o StrX2 \o StrDot
    /\ fn_out[1] = <<StrX0, StrX1, StrX2 \o StrDot>>

\* ---------------------------------------------- extract_distinct_features

RECURSIVE StrLess(_, _)
\* a < b for Python strings
StrLess(a, b) ==
    IF a = <<>> THEN b # <<>>
    ELSE IF b = <<>> THEN FALSE
    ELSE IF a[1] # b[1] THEN Ord(a[1]) < Ord(b[1])
    ELSE StrLess(Tail(a), Tail(b))

RECURSIVE SortedDescending(_)
\* the strings of S from the largest down
SortedDescending(S) ==
    IF S = {} THEN <<>>
    ELSE LET m == CHOOSE x \in S : \A y \in S \ {x} : StrLess(y, x)
         IN  <<m>> \o SortedDescending(S \ {m})

RECURSIVE sorted(_)
\* sorted(S) of a set of strings
sorted(S) ==
    IF S = {} THEN <<>>
    ELSE LET m == CHOOSE x \in S : \A y \in S \ {x} : StrLess(x, y)
         IN  <<m>> \o sorted(S \ {m})

SeqRange(s) == {s[k] : k \in DOMAIN s}

RECURSIVE ExtractLoop(_, _, _, _)
\* the loop over feature_names from the k-th name on
ExtractLoop(feature_names, k, unique_tokens, feature_map) ==
    IF k > Len(feature_names)
    THEN [unique_tokens |-> unique_tokens, feature_map |-> feature_map]
    ELSE LET feat == feature_names[k]
             toks == parse_feature(feat)
         IN  ExtractLoop(feature_names, k + 1,
                         unique_tokens \cup SeqRange(toks),
                         Put(feature_map, feat, toks))

RECURSIVE FirstSeen(_)
\* the distinct elements of a sequence in the order they first occur
FirstSeen(s) ==
    IF s = <<>> THEN <<>>
    ELSE LET r == FirstSeen(SubSeq(s, 1, Len(s) - 1))
         IN  IF s[Len(s)] \in SeqRange(r) THEN r ELSE Append(r, s[Len(s)])

RECURSIVE Flatten(_)
Flatten(ss) == IF ss = <<>> THEN <<>> ELSE Head(ss) \o Flatten(Tail(ss))

\* a builder that lists the tokens as they were met instead of sorting
ExtractInsertionOrder(feature_names) ==
    LET r == ExtractLoop(feature_names, 1, {}, EmptyMap)
    IN  [unique_tokens |->
             FirstSeen(Flatten([k \in DOMAIN feature_names |->
                                   parse_feature(feature_names[k])])),
         feature_map |-> r.feature_map]

extract_distinct_features(feature_names) ==
    LET r == ExtractLoop(feature_names, 1, {}, EmptyMap)
    IN  [unique_tokens |-> sorted(r.unique_tokens),
         feature_map |-> r.feature_map]

\* "1", "x0", "x1", "x0x1", "x1x0_dot", "x2_tx0"
FeatureChoices ==
    {StrOne, StrX0, StrX1, StrX0 \o StrX1, StrX1 \o StrX0 \o StrDot,
     StrX2 \o StrT \o StrX0}

\* lists of at most MaxNames feature names
MaxNames == 3

RECURSIVE NameLists(_)
NameLists(n) ==
    IF n = 0 THEN {<<>>}
    ELSE NameLists(n - 1)
             \cup {Append(s, f) : s \in NameLists(n - 1), f \in FeatureChoices}

\* the reorderings of a sequence
Reorderings(s) ==
    {[k \in DOMAIN s |-> s[f[k]]] :
        f \in {g \in [DOMAIN s -> DOMAIN s] :
                  \A a, b \in DOMAIN s : a # b => g[a] # g[b]}}

ExtractCall(names) ==
    [feature_names |-> names, result |-> extract_distinct_features(names)]

ExtractInit ==
    /\ fn_name = "extract_distinct_features"
    /\ fn_arg \in NameLists(MaxNames)
    /\ fn_out = <<>>

\* extract_distinct_features(feature_names)
ExtractApply ==
    /\ fn_name = "extract_distinct_features"
    /\ Len(fn_out) = 0
    /\ fn_out' = <<ExtractCall(fn_arg)>>
    /\ UNCHANGED <<fn_name, fn_arg, ovars, avars>>

\* a second call on the same feature names in another order
ExtractReordered ==
    /\ fn_name = "extract_distinct_features"
    /\ Len(fn_out) = 1
    /\ \E names \in Reorderings(fn_arg) :
           fn_out' = Append(fn_out, ExtractCall(names))
    /\ UNCHANGED <<fn_name, fn_arg, ovars, avars>>

ExtractNext == ExtractApply \/ ExtractReordered

InitExtract == ExtractInit /\ OIdle /\ AsmIdle

SpecExtract == InitExtract /\ [][ExtractNext]_vars

Extracting == fn_name = "extract_distinct_features"

\* C18: the vocabulary of extract_distinct_features is in increasing string
\* order, so holds no token twice, holds exactly the tokens of the
\* features' token tuples, and the feature map has an entry with the parsed
\* tuple for every input feature.
C18_VocabularySortedAndExact ==
    Extracting =>
        \A c \in DOMAIN fn_out :
            LET names == fn_out[c].feature_names
                vocab == fn_out[c].result.unique_tokens
                fmap == fn_out[c].result.feature_map
            IN  /\ \A a, b \in DOMAIN vocab : a < b => StrLess(vocab[a], vocab[b])
                /\ DOMAIN fmap = SeqRange(names)
                /\ \A f \in DOMAIN fmap : fmap[f] = parse_feature(f)
                /\ SeqRange(vocab) = UNION {SeqRange(fmap[f]) : f \in DOMAIN fmap}

\* ["x2_tx0", "x1x0_dot", "x0"] gives [x0, x0_dot, x1, x2_t]
C18_Witness ==
    /\ Extracting
    /\ Len(fn_out) = 1
    /\ fn_arg = <<StrX2 \o StrT \o StrX0, StrX1 \o StrX0 \o StrDot, StrX0>>
    /\ fn_out[1].result.unique_tokens
           = <<StrX0, StrX0 \o StrDot, StrX1, StrX2 \o StrT>>

\* C19: extract_distinct_features on a reordering of the feature names
\* returns the same vocabulary list and the same token tuple for each
\* feature.
C19_SameUnderReordering ==
    (Extracting /\ Len(fn_out) = 2) =>
        /\ fn_out[2].result.unique_tokens = fn_out[1].result.unique_tokens
        /\ fn_out[2].result.feature_map = fn_out[1].result.feature_map

\* the names reversed, with tokens first met in another order
C19_Witness ==
    /\ Extracting
    /\ Len(fn_out) = 2
    /\ fn_arg = <<StrX2 \o StrT \o StrX0, StrX1 \o StrX0 \o StrDot, StrX0>>
    /\ fn_out[2].feature_names
           = <<StrX0, StrX1 \o StrX0 \o StrDot, StrX2 \o StrT \o StrX0>>
    /\ Len(fn_out[2].result.unique_tokens) = 4

\* --------------------------------------------------- consolidate_product
\* A product Mul(*terms, evaluate=False) is the sequence of its factors,
\* each factor symbol ** count a record of its base and its exponent.

RECURSIVE CountLoop(_, _, _)
\* the counting loop from the k-th token on; counts is token_counts as
\* the sequence of its items in insertion order
CountLoop(toks, k, counts) ==
    IF k > Len(toks) THEN counts
    ELSE IF \E j \in DOMAIN counts : counts[j][1] = toks[k]
         THEN CountLoop(toks, k + 1,
                  [j \in DOMAIN counts |->
                      IF counts[j][1] = toks[k]
                      THEN <<counts[j][1], counts[j][2] + 1>> ELSE counts[j]])
         ELSE CountLoop(toks, k + 1, Append(counts, <<toks[k], 1>>))

\* a product with one factor per occurrence
ConsolidateUncounted(toks, token_symbols) ==
    [k \in DOMAIN toks |-> [base |-> token_symbols[toks[k]], exp |-> 1]]

consolidate_product(toks, token_symbols) ==
    LET token_counts == CountLoop(toks, 1, <<>>)
    IN  [k \in DOMAIN token_counts |->
            [base |-> token_symbols[token_counts[k][1]],
             exp |-> token_counts[k][2]]]

\* token tuples of at most MaxTokens tokens out of x0, x1, x2, x1_dot
MaxTokens == 3

TokenChoices == {StrX0, StrX1, StrX2, StrX1 \o StrDot}

RECURSIVE TokenTuples(_)
TokenTuples(n) ==
    IF n = 0 THEN {<<>>}
    ELSE TokenTuples(n - 1)
             \cup {Append(s, t) : s \in TokenTuples(n - 1), t \in TokenChoices}

\* token_symbols = {tok: sp.Symbol(tok)}: a symbol is its name
SymbolsOf(S) == [t \in S |-> t]

ConsolidateInit ==
    /\ fn_name = "consolidate_product"
    /\ fn_arg \in TokenTuples(MaxTokens)
    /\ fn_out = <<>>

\* consolidate_product(tokens, token_symbols)
ConsolidateApply ==
    /\ fn_name = "consolidate_product"
    /\ Len(fn_out) = 0
    /\ fn_out' = <<consolidate_product(fn_arg, SymbolsOf(TokenChoices))>>
    /\ UNCHANGED <<fn_name, fn_arg, ovars, avars>>

InitConsolidate == ConsolidateInit /\ OIdle /\ AsmIdle

SpecConsolidate == InitConsolidate /\ [][ConsolidateApply]_vars

Consolidating == fn_name = "consolidate_product" /\ Len(fn_out) = 1

Occurrences(s, t) == {k \in DOMAIN s : s[k] = t}

FirstOccurrence(s, t) ==
    CHOOSE k \in Occurrences(s, t) : \A j \in Occurrences(s, t) : k <= j

\* C20: consolidate_product returns one power factor per distinct token,
\* its exponent the number of occurrences of the token, the factors in
\* the order the tokens first occur.
C20_OnePowerPerToken ==
    Consolidating =>
        LET prod == fn_out[1]
        IN  /\ Len(prod) = Cardinality(SeqRange(fn_arg))
            /\ \A t \in SeqRange(fn_arg) :
                   \E k \in DOMAIN prod :
                       /\ prod[k].base = t
                       /\ prod[k].exp = Cardinality(Occurrences(fn_arg, t))
            /\ \A a, b \in DOMAIN prod :
                   a < b => FirstOccurrence(fn_arg, prod[a].base)
                                < FirstOccurrence(fn_arg, prod[b].base)

\* ("x0", "x1_dot", "x0") gives x0**2 * x1_dot
C20_Witness ==
    /\ Consolidating
    /\ fn_arg = <<StrX0, StrX1 \o StrDot, StrX0>>
    /\ fn_out[1] = <<[base |-> StrX0, exp |-> 2],
                     [base |-> StrX1 \o StrDot, exp |-> 1]>>

\* ------------------------------- generate_symbolic_equations_both_sides

\* the call returned and was given the identity as left_coeff and an
\* n x n right_coeff
AssembledWithIdentity ==
    /\ asm_pc = "returned"
    /\ asm_L = generate_identity_matrix(asm_n)
    /\ asm_R.rows = asm_n /\ asm_R.cols = asm_n

\* C21: the assembler returns one equation per feature in row order, and
\* with the identity as left_coeff the equation of row r is
\* monomial(feature_r) - sum_j right_coeff[r][j]*monomial(feature_j) = 0.
C21_IdentityRowEquations ==
    AssembledWithIdentity =>
        /\ Len(asm_eq_list) = asm_n
        /\ \A r \in 0..(asm_n - 1) :
               asm_eq_list[r + 1] =
                   [j \in 0..(asm_n - 1) |->
                       (IF j = r THEN 1 ELSE 0) - asm_R.at[r][j]]

\* two features and right_coeff = [[0, 1], [1, 2]]
C21_Witness ==
    /\ AssembledWithIdentity
    /\ asm_n = 2
    /\ asm_R = Matrix(2, 2, "ramp")
    /\ asm_eq_list = <<[j \in 0..1 |-> IF j = 0 THEN 1 ELSE -1],
                       [j \in 0..1 |-> -1]>>

\* ------------------------------------------------- end-to-end scenario
\* feature_names = ["1", "x0", "x1", "x0_dot"], left_coeff = identity(4),
\* right_coeff row 3 = [0, 2, -1, 0]

ScenarioLeft == generate_identity_matrix(4).at[3]

ScenarioRight == [j \in 0..3 |-> <<0, 2, -1, 0>>[j + 1]]

\* Eq(lhs - rhs, 0) of row 3 as an equation in x0_dot: the coefficient of
\* x0_dot and the terms without it
ScenarioEquation ==
    LET v == [j \in 0..3 |-> ScenarioLeft[j] - ScenarioRight[j]]
    IN  LinearEq(PolyOf({<<MonoOne, C(v[3])>>}),
                 PolyOf({<<MonoOne, C(v[0])>>, <<MonoX0, C(v[1])>>,
                         <<MonoX1, C(v[2])>>}))

\* 2*x0 - x1 over the denominator 1
ScenarioSolution ==
    Ratio(PolyOf({<<MonoX0, C(2)>>, <<MonoX1, C(-1)>>}), OnePoly)

\* row j is the scenario's row, run with tol = 1e-6, and its pass of the
\* loop is over
ScenarioRowDone(j) ==
    /\ eq_list[j + 1] = ScenarioEquation
    /\ tol = MkCoef(1, 1, 1)
    /\ i > j

\* C22: the scenario's row solves to 2*x0 - x1 over 1, rescaling and the
\* term drop with tol = 1e-6 leave it as it is, the row reaches Final, and
\* its export record reports 2 numerator terms, 1 denominator term and no
\* negative denominator coefficient.
C22_ScenarioRow ==
    \A j \in Rows :
        ScenarioRowDone(j) =>
            /\ Get(raw_models, j) = ScenarioSolution
            /\ Get(rescaled_models, j) = ScenarioSolution
            /\ Get(cleaned_models, j) = ScenarioSolution
            /\ j \in DOMAIN final_models
            /\ \E k \in DOMAIN rows_for_csv :
                   /\ rows_for_csv[k].Model = j
                   /\ rows_for_csv[k].NumTerms = 2
                   /\ rows_for_csv[k].DenTerms = 1
                   /\ rows_for_csv[k].AnyNegative = FALSE

C22_Witness ==
    /\ pc = "done"
    /\ eq_list = <<EqAllZero, ScenarioEquation>>
    /\ ScenarioRowDone(1)
    /\ DOMAIN final_models = {1}
    /\ csv_file.written
    /\ Len(csv_file.rows) = 1

\* ------------------------------------------- the filter of drop_small_terms

\* a coefficient is nonzero and larger in magnitude than the tolerance
Survives(c, t) == c.n # 0 /\ CAbsGt(c, t)

\* Q is P cut down to its surviving terms, each with the coefficient it
\* has in P, whenever P has a surviving term; a term of magnitude t is out
SideFiltered(P, Q, t) ==
    (\E m \in DOMAIN P : Survives(P[m], t)) =>
        /\ DOMAIN Q = {m \in DOMAIN P : Survives(P[m], t)}
        /\ \A m \in DOMAIN Q : Q[m] = P[m]
        /\ \A m \in DOMAIN P : (P[m] = t \/ CNeg(P[m]) = t) => m \notin DOMAIN Q

\* C23: a term survives the filter of drop_small_terms exactly when its
\* coefficient is nonzero and strictly larger in magnitude than tol; a
\* coefficient equal to tol is dropped, and a side with a surviving term
\* is cleaned to exactly its surviving terms, coefficients unchanged.
C23_StrictThresholdFilter ==
    fn_name = "drop_small_terms" =>
        \A k \in DOMAIN fn_out :
            /\ SideFiltered(DropInput(k).num, fn_out[k].num_clean, fn_arg.tol)
            /\ SideFiltered(DropInput(k).den, fn_out[k].den_clean, fn_arg.tol)

\* tol = 0.3 on the numerator 0.3*x0 + 0.8*x1 leaves 0.8*x1
C23_Witness ==
    /\ fn_name = "drop_small_terms"
    /\ Len(fn_out) = 1
    /\ fn_arg.tol = MkCoef(3, 10, 0)
    /\ fn_arg.expr.num = PolyOf({<<MonoX0, MkCoef(3, 10, 0)>>,
                                 <<MonoX1, MkCoef(4, 5, 0)>>})
    /\ fn_out[1].num_clean = PolyOf({<<MonoX1, MkCoef(4, 5, 0)>>})

\* ------------------------------------- the fallback of rescale_expression

\* the call did not scale by a target: the second call, and the first
\* one when target is None or was not the monomial used
FallbackCall(k) ==
    \/ k = 2
    \/ fn_arg.target = NoTarget
    \/ fn_out[k].used_monomial # fn_arg.target

\* exponent tuple a comes before b in lexicographic order
TupleBefore(a, b) ==
    \E k \in DOMAIN a :
        /\ a[k] < b[k]
        /\ \A j \in DOMAIN a : j < k => a[j] = b[j]

\* over the generators g no monomial of D has a higher total degree than
\* m, and none of the same total degree has an earlier exponent tuple
IsLeadingMonomial(D, g, m) ==
    \A m2 \in DOMAIN D :
        \/ SumSeq(GenExp(m2, g)) < SumSeq(GenExp(m, g))
        \/ /\ SumSeq(GenExp(m2, g)) = SumSeq(GenExp(m, g))
           /\ \/ GenExp(m2, g) = GenExp(m, g)
              \/ TupleBefore(GenExp(m, g), GenExp(m2, g))

\* C24: the monomial the fallback of rescale_expression scales by has the
\* highest total degree in the denominator and, among the monomials of
\* that degree, the lexicographically smallest exponent tuple over gens;
\* a second call with the same arguments makes the same choice.
C24_FallbackPicksLeadingMonomial ==
    Rescaling =>
        /\ \A k \in DOMAIN fn_out :
               (FallbackCall(k) /\ fn_out[k].success) =>
                   /\ fn_out[k].used_monomial \in DOMAIN fn_arg.expr.den
                   /\ IsLeadingMonomial(fn_arg.expr.den,
                                        GensOf(fn_arg.expr.den, fn_arg.gens),
                                        fn_out[k].used_monomial)
        /\ (Len(fn_out) = 2 /\ fn_arg.target = NoTarget)
               => fn_out[2] = fn_out[1]

\* x0 and x1 tie at degree 1; over (x0, x1) the tuple of x1 is the smaller
C24_Witness ==
    /\ Rescaling
    /\ Len(fn_out) = 2
    /\ fn_arg.gens = NoGens
    /\ DOMAIN fn_arg.expr.den = {MonoX0, MonoX1}
    /\ fn_out[2].success
    /\ fn_out[2].used_monomial = MonoX1

\* ------------------------------------ the no-op paths of rescale_expression

\* over the generators the leading monomial of the denominator of e has a
\* coefficient that is not above 1e-12 in magnitude
LeadCoeffTooSmall(e, gn) ==
    LET g == GensOf(e.den, gn)
    IN  ~CAbsGt(CoeffAt(e.den, g, LeadMonom(e.den, g)), CoefFloor)

\* the k-th call cannot rescale: the denominator is a constant, or the
\* call has no target and the leading coefficient is too small
CannotRescale(k) ==
    \/ DenIsNumber(fn_arg.expr)
    \/ /\ k = 2 \/ fn_arg.target = NoTarget
       /\ LeadCoeffTooSmall(fn_arg.expr, fn_arg.gens)

BetweenPasses == pc \in {"solve", "finalize", "summary", "done", "raised"}

\* C26: after each pass of the loop the two counters add up to the number
\* of passes made, successful_models is the number of keys of final_models
\* and the number of export rows collected, and when the call returns the
\* counters add up to len(eq_list).
C26_CountersAddUp ==
    /\ BetweenPasses =>
           /\ successful_models + failed_models = i
           /\ successful_models = Cardinality(DOMAIN final_models)
           /\ successful_models = Len(rows_for_csv)
    /\ pc = "done" => successful_models + failed_models = Len(eq_list)

\* a returned batch of two rows, one exported and one failed
C26_Witness ==
    /\ pc = "done"
    /\ Len(eq_list) = 2
    /\ successful_models = 1
    /\ failed_models = 1
    /\ Len(rows_for_csv) = 1
    /\ Cardinality(DOMAIN final_models) = 1

\* ------------------------------------------ the all-terms-dropped exit

\* C27: a row that passed the zero-numerator check keeps a numerator of at
\* least one term through drop_small_terms, so no row leaves the loop by
\* the "All numerator terms dropped" exit.
C27_NeverAllTermsDropped ==
    /\ Printed({"all_terms_dropped"}) = {}
    /\ pc \in {"round", "emit"} =>
           /\ ~IsZeroPoly(rescaled.num)
           /\ ~IsZeroPoly(cleaned.num)
    /\ \A j \in DOMAIN rescaled_models :
           i > j => j \in DOMAIN cleaned_models

\* every numerator term of the row is below tol and the row is exported
\* with the one largest term
C27_Witness ==
    /\ pc = "done"
    /\ Len(eq_list) > 0
    /\ eq_list[1] = EqTinyNum
    /\ 0 \in DOMAIN final_models
    /\ NTerms(raw_models[0].num) = 2
    /\ cleaned_models[0].num = PolyOf({<<MonoX0, Tiny>>})

\* ------------------------------------------------- tokenizer round trip

\* a letter, digits, and then nothing, _dot or _t
WellFormedToken(t) ==
    /\ Len(t) > 0
    /\ IsLetter(t[1])
    /\ \/ DigitsEnd(t, 2) = Len(t) + 1
       \/ SubSeq(t, DigitsEnd(t, 2), Len(t)) \in {StrDot, StrT}

RECURSIVE Splits(_)
\* the sequences of well-formed tokens whose concatenation is s
Splits(s) ==
    IF s = <<>> THEN {<<>>}
    ELSE UNION {{<<SubSeq(s, 1, k)>> \o r :
                    r \in Splits(SubSeq(s, k + 1, Len(s)))} :
                k \in {n \in 1..Len(s) : WellFormedToken(SubSeq(s, 1, n))}}

RECURSIVE MatchedChars(_, _)
\* s from position p on without the characters neither pattern matches
MatchedChars(s, p) ==
    IF p > Len(s) THEN <<>>
    ELSE IF DerivEnd(s, p) # 0
         THEN SubSeq(s, p, DerivEnd(s, p) - 1) \o MatchedChars(s, DerivEnd(s, p))
         ELSE IF IsLetter(s[p])
              THEN SubSeq(s, p, DigitsEnd(s, p + 1) - 1)
                       \o MatchedChars(s, DigitsEnd(s, p + 1))
              ELSE MatchedChars(s, p + 1)

\* C28: parse_feature of the concatenation of well-formed tokens returns
\* those tokens, joining the tokens of such a string gives the string
\* back, and for any string the joined tokens are the string without the
\* characters that neither pattern matches.
C28_TokenizerRoundTrip ==
    Parsing =>
        /\ \A ts \in Splits(fn_arg) : fn_out[1] = ts
        /\ Splits(fn_arg) # {} => Flatten(fn_out[1]) = fn_arg
        /\ Flatten(fn_out[1]) = MatchedChars(fn_arg, 1)
        /\ SelectSeq(Flatten(fn_out[1]), IsLetter)
               = SelectSeq(fn_arg, IsLetter)

\* "x1x0_doty" is the concatenation of x1, x0_dot and y
C28_Witness ==
    /\ Parsing
    /\ fn_arg = StrX1 \o StrX0 \o StrDot \o StrY
    /\ Splits(fn_arg) = {<<StrX1, StrX0 \o StrDot, StrY>>}
    /\ fn_out[1] = <<StrX1, StrX0 \o StrDot, StrY>>

====
